---- MODULE Spec2Model ----
(***************************************************************************)
(* Model of src/mcp3008.rs: the MCP3008 session typestate machine          *)
(* (Initializing / Ready / Probing) and the SPI worker thread behind it,   *)
(* connected by two rendezvous channels (mpsc::sync_channel(0)).           *)
(*                                                                         *)
(* Two threads are modelled.  The caller's operations are the methods of   *)
(* the handles; Probing::poll is split at its loop head, because the       *)
(* worker may run between the try_send and the try_recv of a single call.  *)
(* The worker's position is wpc; a worker blocked in a channel operation   *)
(* stays at that position until the caller's matching non-blocking         *)
(* operation pairs up with it, or until the other end is dropped.          *)
(*                                                                         *)
(* Voltages are exact rationals written as integers in units of 1/10240 V, *)
(* so that data * v_ref / 1024.0 is an exact integer division.             *)
(***************************************************************************)
EXTENDS Integers, Sequences, FiniteSets, TLC

\* ---------------------------------------------------------------- bounds

\* How many times the caller calls Ready::probe_channel in one run.
MaxProbes == 2

\* ----------------------------------------------------------------- types

Channels == {"Ch0", "Ch1", "Ch2", "Ch3", "Ch4", "Ch5", "Ch6", "Ch7"}
NoChannel == "NoChannel"
NoError == "NoError"

\* Volt(x) for x given in tenths of a volt, in units of 1/10240 V.
Volt(dv) == dv * 1024

VddValues == {"Positive3v3", "Positive5v"}

\* The explicit reference voltages the caller may pass in Vref::Other.
OtherVoltages == {Volt(25), Volt(41)}

VrefValues ==
    {[tag |-> "EqualToVdd", voltage |-> 0]}
        \cup {[tag |-> "Other", voltage |-> v] : v \in OtherVoltages}

ParamsValues == [voltage_drain : VddValues, voltage_ref : VrefValues]

\* The 3-byte responses a bus transaction may capture.
Responses == {<<0, 0, 0>>, <<255, 255, 255>>, <<170, 6, 1>>}

\* Event values; unused fields hold a placeholder.
EvSpiInitialized ==
    [kind |-> "SpiInitialized", channel |-> NoChannel, value |-> 0, error |-> NoError]
EvChannelRead(channel, value) ==
    [kind |-> "ChannelRead", channel |-> channel, value |-> value, error |-> NoError]
EvError(error) ==
    [kind |-> "Error", channel |-> NoChannel, value |-> 0, error |-> error]
NoEvent ==
    [kind |-> "None", channel |-> NoChannel, value |-> 0, error |-> NoError]

\* ProbingState
StRequest(channel) == [tag |-> "Request", channel |-> channel]
StWaitingReply == [tag |-> "WaitingReply", channel |-> NoChannel]
StNone == [tag |-> "None", channel |-> NoChannel]

\* What a caller operation returned.
Result(op, kind, error, channel, value) ==
    [op |-> op, kind |-> kind, error |-> error, channel |-> channel, value |-> value]
NoResult == Result("none", "None", NoError, NoChannel, 0)

\* ------------------------------------------------------------- variables

VARIABLES
    params,      \* the Params passed to Session::new
    hz,          \* the worker's clock argument
    v_ref,       \* the worker's reference voltage argument
    spawned,     \* number of worker threads spawned for the session
    handle,      \* which handle the caller holds
    pstate,      \* Probing.state
    inPoll,      \* a Probing::poll call is between its two loop rounds
    callSends,   \* try_send attempts of the current (or last) poll call
    callRecvs,   \* try_recv attempts of the current (or last) poll call
    asked,       \* the channel given to the last probe_channel call
    probes,      \* number of probe_channel calls so far
    lastResult,  \* what the caller's last operation returned
    wpc,         \* the worker's position
    wchannel,    \* the worker's local `channel` of the request in hand
    buffer,      \* the worker's response buffer
    data,        \* the worker's local `data`, the sample last decoded
    frame,       \* the command bytes of the last bus transaction
    offer,       \* the event of the worker's blocked event_tx.send
    panicked,    \* the worker died abnormally
    emitted,     \* kinds of the events the worker passed to event_tx.send
    sent,        \* requests the caller's try_send handed to the worker
    rcvd,        \* ChannelRead and Error events the caller's try_recv returned
    replies,     \* those of them returned to Probing::poll
    txCount,     \* bus transactions started
    wrecv,       \* requests the worker's recv returned
    lost,        \* number of SpiThreadLost results returned to the caller
    busOpen,     \* how Spi::new ended: "pending", "ok" or "failed"
    txFailed     \* a bus transaction has failed

callerVars == <<handle, pstate, inPoll, callSends, callRecvs, asked, probes, lastResult>>
workerVars == <<wpc, wchannel, buffer, data, frame, offer, panicked>>
countVars == <<emitted, sent, rcvd, replies, txCount, wrecv, lost, busOpen, txFailed>>
constVars == <<params, hz, v_ref, spawned>>
vars == <<params, hz, v_ref, spawned, handle, pstate, inPoll, callSends,
          callRecvs, asked, probes, lastResult, wpc, wchannel, buffer, data,
          frame, offer, panicked, emitted,
          sent, rcvd, replies, txCount, wrecv, lost, busOpen, txFailed>>

\* ------------------------------------------------------- pure functions

\* Session::new, the clock for the supply rail.
ClockHz(vdd) ==
    CASE vdd = "Positive3v3" -> 1350000
      [] vdd = "Positive5v" -> 3600000

\* Mutant of ResolveVref: the explicit reference is ignored.
ResolveVref_IgnoreOverride(p) ==
    CASE p.voltage_drain = "Positive3v3" -> Volt(33)
      [] p.voltage_drain = "Positive5v" -> Volt(50)

\* Session::new, the reference voltage.
ResolveVref(p) ==
    IF p.voltage_ref.tag = "EqualToVdd"
    THEN CASE p.voltage_drain = "Positive3v3" -> Volt(33)
           [] p.voltage_drain = "Positive5v" -> Volt(50)
    ELSE p.voltage_ref.voltage

\* spi_worker_loop, the match on the channel.
ChannelValue(channel) ==
    CASE channel = "Ch0" -> 0
      [] channel = "Ch1" -> 1
      [] channel = "Ch2" -> 2
      [] channel = "Ch3" -> 3
      [] channel = "Ch4" -> 4
      [] channel = "Ch5" -> 5
      [] channel = "Ch6" -> 6
      [] channel = "Ch7" -> 7

\* Bitwise operations on bytes.
RECURSIVE BitAnd(_, _)
BitAnd(a, b) ==
    IF a = 0 \/ b = 0 THEN 0
    ELSE (a % 2) * (b % 2) + 2 * BitAnd(a \div 2, b \div 2)

RECURSIVE BitOr(_, _)
BitOr(a, b) ==
    IF a = 0 THEN b
    ELSE IF b = 0 THEN a
    ELSE (IF a % 2 = 1 \/ b % 2 = 1 THEN 1 ELSE 0) + 2 * BitOr(a \div 2, b \div 2)

\* x << n in a u8.
Shl8(x, n) == (x * (2 ^ n)) % 256

\* Mutant of CommandFrame: the channel address is shifted by 3, not 4.
CommandFrame_Shift3(channel) ==
    <<1, BitOr(128, Shl8(ChannelValue(channel), 3)), 0>>

\* The three command bytes written for a channel.
CommandFrame(channel) ==
    <<1, BitOr(128, Shl8(ChannelValue(channel), 4)), 0>>

\* Mutant of Decode: the second byte is not masked.
Decode_NoMask(buf) ==
    BitOr((buf[2] * 256) % 65536, buf[3])

\* ((buffer[1] & 0b00000011) as u16) << 8 | (buffer[2] as u16), 1-based here.
Decode(buf) ==
    BitOr((BitAnd(buf[2], 3) * 256) % 65536, buf[3])

\* Mutant of Scale: the full-scale code is mapped onto the reference voltage.
Scale_Div1023(sample, vref) == (sample * vref) \div 1023

\* Volt(data as f64 * v_ref.0 / 1024.0)
Scale(sample, vref) == (sample * vref) \div 1024

\* ----------------------------------------------------- channel semantics

\* Worker positions at which request_rx has not been dropped.
InLoop(pc) == pc \in {"open", "send_init", "loop", "recv", "transfer", "send_read"}

\* Worker positions at which the worker is blocked in event_tx.send.
InSend(pc) == pc \in {"send_init", "send_read", "send_err"}

\* The caller's ends of the channels live in Inner, which every handle owns:
\* they are dropped when the handle is dropped, when an operation returns Err
\* (it has consumed the handle) and when unreachable!() unwinds the caller.
CallerAlive(h) == h \in {"initializing", "ready", "probing"}

\* Mutant of TrySend: a buffered request channel, which accepts a request
\* whenever the receiver exists.
TrySend_Buffered(pc) ==
    IF InLoop(pc) THEN "Ok" ELSE "Disconnected"

\* Mutant of TrySend: a busy worker is reported as a lost one.
TrySend_NeverFull(pc) ==
    IF pc = "recv" THEN "Ok" ELSE "Disconnected"

\* request_tx.try_send on the zero-capacity channel: pairs up with a receiver
\* blocked in recv, otherwise reports disconnection or Full.
TrySend(pc) ==
    IF pc = "recv" THEN "Ok"
    ELSE IF ~InLoop(pc) THEN "Disconnected"
    ELSE "Full"

\* Mutant of TryRecv: no sender waiting is always reported as disconnection.
TryRecv_NeverEmpty(pc) ==
    IF InSend(pc) THEN "Ok" ELSE "Disconnected"

\* Mutant of TryRecv: a dropped sender is reported as Empty.
TryRecv_NeverDisconnected(pc) ==
    IF InSend(pc) THEN "Ok" ELSE "Empty"

\* event_rx.try_recv on the zero-capacity channel: pairs up with a sender
\* blocked in send, otherwise reports disconnection or Empty.
TryRecv(pc) ==
    IF InSend(pc) THEN "Ok"
    ELSE IF pc = "done" THEN "Disconnected"
    ELSE "Empty"

\* Mutant of AfterSend: the worker goes back to the loop after its Error event.
AfterSend_KeepLooping(pc) == "loop"

\* Mutant of AfterSend: the worker ends after its first ChannelRead.
AfterSend_ExitAfterReply(pc) ==
    CASE pc = "send_init" -> "loop"
      [] pc = "send_read" -> "done"
      [] pc = "send_err" -> "done"

\* Mutant of AfterSend: once a reply is handed over the worker runs another
\* transaction without waiting for a request.
AfterSend_TransferAgain(pc) ==
    CASE pc = "send_init" -> "loop"
      [] pc = "send_read" -> "transfer"
      [] pc = "send_err" -> "done"

\* Where the worker continues once its blocked send has handed its event to
\* the caller: the head of the loop, or the end of spi_worker.
AfterSend(pc) ==
    CASE pc = "send_init" -> "loop"
      [] pc = "send_read" -> "loop"
      [] pc = "send_err" -> "done"

\* Mutant of AfterSendError: a failed send in the loop leaves it through `?`
\* and is reported as an Error.
AfterSendError_Propagate(pc) ==
    CASE pc = "send_init" -> "send_err"
      [] pc = "send_read" -> "send_err"
      [] pc = "send_err" -> "done"

\* Where the worker continues once its blocked send has returned
\* Err(SendError): `.or_else(|mpsc::SendError(..)| Ok(()))?` in the loop,
\* `.ok()` in spi_worker.
AfterSendError(pc) ==
    CASE pc = "send_init" -> "loop"
      [] pc = "send_read" -> "loop"
      [] pc = "send_err" -> "done"

\* ------------------------------------------------------------------ Init

\* The state Session::new returns in: one worker spawned, about to open the bus.
Init ==
    /\ params \in ParamsValues
    /\ hz = ClockHz(params.voltage_drain)
    /\ v_ref = ResolveVref(params)
    /\ spawned = 1
    /\ handle = "initializing"
    /\ pstate = StNone
    /\ inPoll = FALSE
    /\ callSends = 0
    /\ callRecvs = 0
    /\ asked = NoChannel
    /\ probes = 0
    /\ lastResult = NoResult
    /\ wpc = "open"
    /\ wchannel = NoChannel
    /\ buffer = <<0, 0, 0>>
    /\ data = 0
    /\ frame = <<>>
    /\ offer = NoEvent
    /\ panicked = FALSE
    /\ emitted = <<>>
    /\ sent = 0
    /\ rcvd = 0
    /\ replies = 0
    /\ txCount = 0
    /\ wrecv = 0
    /\ lost = 0
    /\ busOpen = "pending"
    /\ txFailed = FALSE

\* ---------------------------------------------------------------- worker

\* Mutant of ReplyEvent: the reply does not carry the request's channel.
ReplyEvent_FixedChannel(channel, buf, vref) ==
    EvChannelRead("Ch0", Scale(Decode(buf), vref))

\* Mutant of ReplyEvent: the worker answers a request with SpiInitialized.
ReplyEvent_Initialized(channel, buf, vref) == EvSpiInitialized

\* The event of a successful transaction: decode the buffer, scale, report the
\* channel of the request.
ReplyEvent(channel, buf, vref) ==
    EvChannelRead(channel, Scale(Decode(buf), vref))

\* The worker's next position after Spi::new: Ok goes on to send
\* SpiInitialized, Err leaves spi_worker_loop through `?`.
AfterOpen(ok) == IF ok THEN "send_init" ELSE "send_err"

\* Mutant of OpenEvent: readiness is reported whatever Spi::new returned.
OpenEvent_AlwaysInitialized(ok) == EvSpiInitialized

\* The event the worker sends after Spi::new.
OpenEvent(ok) == IF ok THEN EvSpiInitialized ELSE EvError("SpiInitialize")

\* Mutant of AfterTransfer: a failed transaction is tried again.
AfterTransfer_Retry(ok) == IF ok THEN "send_read" ELSE "transfer"

\* Mutant of AfterTransfer: a failed transaction ends the worker without an
\* Error event.
AfterTransfer_DropError(ok) == IF ok THEN "send_read" ELSE "exit"

\* The worker's next position after transfer_segments.
AfterTransfer(ok) == IF ok THEN "send_read" ELSE "send_err"

\* Spi::new(..) and the event_tx.send call that follows it: SpiInitialized in
\* spi_worker_loop, or Error(SpiInitialize) in spi_worker once `?` has left
\* the loop function and dropped request_rx.
WorkerOpen ==
    /\ wpc = "open"
    /\ \E ok \in BOOLEAN :
        /\ wpc' = AfterOpen(ok)
        /\ offer' = OpenEvent(ok)
        /\ emitted' = Append(emitted, OpenEvent(ok).kind)
        /\ busOpen' = IF ok THEN "ok" ELSE "failed"
    /\ buffer' = <<0, 0, 0>>
    /\ UNCHANGED <<wchannel, data, frame, panicked>>
    /\ UNCHANGED <<sent, rcvd, replies, txCount, wrecv, lost, txFailed>>
    /\ UNCHANGED callerVars
    /\ UNCHANGED constVars

\* One bus transaction for the request in hand, and the event_tx.send call that
\* follows it: ChannelRead, or Error(SpiTransferSegments) from spi_worker.
\* `responses` are the byte triples the chip may answer with.
Transfer(responses) ==
    /\ wpc = "transfer"
    /\ frame' = CommandFrame(wchannel)
    /\ txCount' = txCount + 1
    /\ \/ \E resp \in responses :
            /\ buffer' = resp
            /\ data' = Decode(resp)
            /\ wpc' = AfterTransfer(TRUE)
            /\ offer' = ReplyEvent(wchannel, resp, v_ref)
            /\ emitted' = Append(emitted, "ChannelRead")
            /\ UNCHANGED txFailed
       \/ /\ buffer' = buffer
          /\ data' = data
          /\ txFailed' = TRUE
          /\ wpc' = AfterTransfer(FALSE)
          /\ offer' = EvError("SpiTransferSegments")
          /\ emitted' = Append(emitted, "Error")
    /\ UNCHANGED <<wchannel, panicked>>
    /\ UNCHANGED <<sent, rcvd, replies, wrecv, lost, busOpen>>
    /\ UNCHANGED callerVars
    /\ UNCHANGED constVars

\* The transaction step of the worker in the session model.
WorkerTransfer == Transfer(Responses)

\* The blocked event_tx.send returns Err(SendError) because the caller dropped
\* event_rx; the error is swallowed and the worker goes on.
WorkerSendDisconnected ==
    /\ InSend(wpc)
    /\ ~CallerAlive(handle)
    /\ wpc' = AfterSendError(wpc)
    /\ offer' = NoEvent
    /\ UNCHANGED <<wchannel, buffer, data, frame, panicked>>
    /\ UNCHANGED countVars
    /\ UNCHANGED callerVars
    /\ UNCHANGED constVars

\* The head of the loop: the worker calls request_rx.recv() and blocks in it.
WorkerRecv ==
    /\ wpc = "loop"
    /\ wpc' = "recv"
    /\ UNCHANGED <<wchannel, buffer, data, frame, offer, panicked>>
    /\ UNCHANGED countVars
    /\ UNCHANGED callerVars
    /\ UNCHANGED constVars

\* The blocked request_rx.recv returns Err(RecvError) because the caller
\* dropped request_tx: return Ok(()) from the loop.
WorkerRecvDisconnected ==
    /\ wpc = "recv"
    /\ ~CallerAlive(handle)
    /\ wpc' = "exit"
    /\ UNCHANGED <<wchannel, buffer, data, frame, offer, panicked>>
    /\ UNCHANGED countVars
    /\ UNCHANGED callerVars
    /\ UNCHANGED constVars

\* spi_worker returns (or its unwinding ends): event_tx is dropped.
WorkerExit ==
    /\ wpc \in {"exit", "unwind"}
    /\ wpc' = "done"
    /\ UNCHANGED <<wchannel, buffer, data, frame, offer, panicked>>
    /\ UNCHANGED countVars
    /\ UNCHANGED callerVars
    /\ UNCHANGED constVars

\* The worker thread dies abnormally (a panic): unwinding drops request_rx
\* with the frame of spi_worker_loop, then event_tx with that of spi_worker.
WorkerPanic ==
    /\ wpc \notin {"exit", "unwind", "done"}
    /\ panicked' = TRUE
    /\ offer' = NoEvent
    /\ wpc' = IF InLoop(wpc) THEN "unwind" ELSE "done"
    /\ UNCHANGED <<wchannel, buffer, data, frame>>
    /\ UNCHANGED countVars
    /\ UNCHANGED callerVars
    /\ UNCHANGED constVars

\* What the worker thread does when it is scheduled and not blocked.
WorkerStep ==
    \/ WorkerOpen
    \/ WorkerTransfer
    \/ WorkerSendDisconnected
    \/ WorkerRecv
    \/ WorkerRecvDisconnected
    \/ WorkerExit

\* ---------------------------------------------------------------- caller

\* The handle left after an event was received in state Initializing.
InitNext(ev) ==
    CASE ev.kind = "SpiInitialized" -> "ready"
      [] ev.kind = "ChannelRead" -> "crashed"     \* unreachable!()
      [] ev.kind = "Error" -> "failed"

\* What Initializing::probe returns for a received event.
InitResult(ev) ==
    CASE ev.kind = "SpiInitialized" -> Result("probe", "Ready", NoError, NoChannel, 0)
      [] ev.kind = "ChannelRead" -> Result("probe", "Panic", NoError, NoChannel, 0)
      [] ev.kind = "Error" -> Result("probe", "Err", ev.error, NoChannel, 0)

\* The handle left after an event was received in state Probing/WaitingReply.
PollNext(ev) ==
    CASE ev.kind = "SpiInitialized" -> "crashed"  \* unreachable!()
      [] ev.kind = "ChannelRead" -> "ready"
      [] ev.kind = "Error" -> "failed"

\* What Probing::poll returns for a received event.
PollResult(ev) ==
    CASE ev.kind = "SpiInitialized" -> Result("poll", "Panic", NoError, NoChannel, 0)
      [] ev.kind = "ChannelRead" -> Result("poll", "Done", NoError, ev.channel, ev.value)
      [] ev.kind = "Error" -> Result("poll", "Err", ev.error, NoChannel, 0)

\* 1 for the events counted in rcvd.
Counted(ev) == IF ev.kind \in {"ChannelRead", "Error"} THEN 1 ELSE 0

\* Initializing::probe
InitializingProbe ==
    /\ handle = "initializing"
    /\ LET r == TryRecv(wpc) IN
        \/ /\ r = "Ok"
           /\ handle' = InitNext(offer)
           /\ lastResult' = InitResult(offer)
           /\ rcvd' = rcvd + Counted(offer)
           /\ wpc' = AfterSend(wpc)
           /\ offer' = NoEvent
           /\ UNCHANGED lost
        \/ /\ r = "Empty"
           /\ lastResult' = Result("probe", "Idle", NoError, NoChannel, 0)
           /\ UNCHANGED <<handle, rcvd, wpc, offer, lost>>
        \/ /\ r = "Disconnected"
           /\ handle' = "failed"
           /\ lastResult' = Result("probe", "Err", "SpiThreadLost", NoChannel, 0)
           /\ lost' = lost + 1
           /\ UNCHANGED <<rcvd, wpc, offer>>
    /\ UNCHANGED <<pstate, inPoll, callSends, callRecvs, asked, probes>>
    /\ UNCHANGED <<wchannel, buffer, data, frame, panicked>>
    /\ UNCHANGED <<emitted, sent, replies, txCount, wrecv, busOpen, txFailed>>
    /\ UNCHANGED constVars

\* Mutant of NewProbingState: the handle does not keep the channel asked for.
NewProbingState_Forget(channel) == StRequest("Ch0")

\* Mutant of NewProbingState: the new handle counts its request as sent.
NewProbingState_AlreadySent(channel) == StWaitingReply

\* The ProbingState a new Probing handle starts in.
NewProbingState(channel) == StRequest(channel)

\* Ready::probe_channel
ProbeChannel(channel) ==
    /\ handle = "ready"
    /\ probes < MaxProbes
    /\ handle' = "probing"
    /\ pstate' = NewProbingState(channel)
    /\ asked' = channel
    /\ probes' = probes + 1
    /\ lastResult' = Result("probe_channel", "Probing", NoError, channel, 0)
    /\ callSends' = 0
    /\ callRecvs' = 0
    /\ UNCHANGED inPoll
    /\ UNCHANGED workerVars
    /\ UNCHANGED countVars
    /\ UNCHANGED constVars

\* Mutant of PollRequest: the call returns right after a successful send and
\* leaves the receive to the next call.
PollRequest_ReturnAfterSend ==
    /\ handle = "probing"
    /\ pstate.tag = "Request"
    /\ LET r == TrySend(wpc) IN
        \/ /\ r = "Ok"
           /\ pstate' = StWaitingReply
           /\ lastResult' = Result("poll", "Idle", NoError, NoChannel, 0)
           /\ inPoll' = FALSE
           /\ wpc' = "transfer"
           /\ wchannel' = pstate.channel
           /\ sent' = sent + 1
           /\ wrecv' = wrecv + 1
           /\ UNCHANGED <<handle, lost>>
        \/ /\ r = "Full"
           /\ lastResult' = Result("poll", "Idle", NoError, NoChannel, 0)
           /\ inPoll' = FALSE
           /\ UNCHANGED <<handle, pstate, wpc, wchannel, sent, wrecv, lost>>
        \/ /\ r = "Disconnected"
           /\ handle' = "failed"
           /\ pstate' = StNone
           /\ lastResult' = Result("poll", "Err", "SpiThreadLost", NoChannel, 0)
           /\ inPoll' = FALSE
           /\ lost' = lost + 1
           /\ UNCHANGED <<wpc, wchannel, sent, wrecv>>
    /\ callSends' = 1
    /\ callRecvs' = 0
    /\ UNCHANGED <<asked, probes>>
    /\ UNCHANGED <<buffer, data, frame, offer, panicked>>
    /\ UNCHANGED <<emitted, rcvd, replies, txCount, busOpen, txFailed>>
    /\ UNCHANGED constVars

\* Probing::poll, a loop round in state Request: the try_send.
PollRequest ==
    /\ handle = "probing"
    /\ pstate.tag = "Request"
    /\ LET r == TrySend(wpc) IN
        \/ /\ r = "Ok"
           /\ pstate' = StWaitingReply
           /\ inPoll' = TRUE
           /\ wpc' = "transfer"
           /\ wchannel' = pstate.channel
           /\ sent' = sent + 1
           /\ wrecv' = wrecv + 1
           /\ UNCHANGED <<handle, lastResult, lost>>
        \/ /\ r = "Full"
           /\ lastResult' = Result("poll", "Idle", NoError, NoChannel, 0)
           /\ inPoll' = FALSE
           /\ UNCHANGED <<handle, pstate, wpc, wchannel, sent, wrecv, lost>>
        \/ /\ r = "Disconnected"
           /\ handle' = "failed"
           /\ pstate' = StNone
           /\ lastResult' = Result("poll", "Err", "SpiThreadLost", NoChannel, 0)
           /\ inPoll' = FALSE
           /\ lost' = lost + 1
           /\ UNCHANGED <<wpc, wchannel, sent, wrecv>>
    /\ callSends' = 1
    /\ callRecvs' = 0
    /\ UNCHANGED <<asked, probes>>
    /\ UNCHANGED <<buffer, data, frame, offer, panicked>>
    /\ UNCHANGED <<emitted, rcvd, replies, txCount, busOpen, txFailed>>
    /\ UNCHANGED constVars

\* Probing::poll, a loop round in state WaitingReply: the try_recv.
PollWaiting ==
    /\ handle = "probing"
    /\ pstate.tag = "WaitingReply"
    /\ LET r == TryRecv(wpc) IN
        \/ /\ r = "Ok"
           /\ handle' = PollNext(offer)
           /\ pstate' = StNone
           /\ lastResult' = PollResult(offer)
           /\ rcvd' = rcvd + Counted(offer)
           /\ replies' = replies + Counted(offer)
           /\ wpc' = AfterSend(wpc)
           /\ offer' = NoEvent
           /\ UNCHANGED lost
        \/ /\ r = "Empty"
           /\ lastResult' = Result("poll", "Idle", NoError, NoChannel, 0)
           /\ UNCHANGED <<handle, pstate, rcvd, replies, wpc, offer, lost>>
        \/ /\ r = "Disconnected"
           /\ handle' = "failed"
           /\ pstate' = StNone
           /\ lastResult' = Result("poll", "Err", "SpiThreadLost", NoChannel, 0)
           /\ lost' = lost + 1
           /\ UNCHANGED <<rcvd, replies, wpc, offer>>
    /\ inPoll' = FALSE
    /\ callSends' = (IF inPoll THEN callSends ELSE 0)
    /\ callRecvs' = (IF inPoll THEN callRecvs ELSE 0) + 1
    /\ UNCHANGED <<asked, probes>>
    /\ UNCHANGED <<wchannel, buffer, data, frame, panicked>>
    /\ UNCHANGED <<emitted, sent, txCount, wrecv, busOpen, txFailed>>
    /\ UNCHANGED constVars

\* The caller abandons the session: the handle, and Inner with both channel
\* ends, is dropped.
Drop ==
    /\ CallerAlive(handle)
    /\ ~inPoll
    /\ handle' = "dropped"
    /\ pstate' = StNone
    /\ UNCHANGED <<inPoll, callSends, callRecvs, asked, probes, lastResult>>
    /\ UNCHANGED workerVars
    /\ UNCHANGED countVars
    /\ UNCHANGED constVars

\* ------------------------------------------------------- specifications

Next ==
    \/ InitializingProbe
    \/ \E channel \in Channels : ProbeChannel(channel)
    \/ PollRequest
    \/ PollWaiting
    \/ Drop
    \/ WorkerOpen
    \/ WorkerTransfer
    \/ WorkerSendDisconnected
    \/ WorkerRecv
    \/ WorkerRecvDisconnected
    \/ WorkerExit
    \/ WorkerPanic

Spec == Init /\ [][Next]_vars

\* The worker thread is scheduled whenever it can run, and a caller that
\* holds a handle goes on calling its operation.
FairSpec ==
    /\ Spec
    /\ WF_vars(WorkerStep)
    /\ WF_vars(InitializingProbe)
    /\ WF_vars(PollRequest)
    /\ WF_vars(PollWaiting)

\* The byte triples of the transaction model: every second byte with extreme
\* first and third bytes, every 10-bit sample, and a mixed one.
ByteTriples ==
    {<<a, b, c>> : a \in {0, 255}, b \in 0..255, c \in {0, 255}}
        \cup {<<0, b, c>> : b \in 0..3, c \in 0..255}
        \cup {<<170, 6, 1>>}

\* The session at the point where the worker holds the first request (for any
\* channel, under any Params) and is about to run its bus transaction.
TransferInit ==
    /\ params \in ParamsValues
    /\ hz = ClockHz(params.voltage_drain)
    /\ v_ref = ResolveVref(params)
    /\ spawned = 1
    /\ handle = "probing"
    /\ pstate = StWaitingReply
    /\ inPoll = TRUE
    /\ callSends = 1
    /\ callRecvs = 0
    /\ asked \in Channels
    /\ probes = 1
    /\ lastResult = Result("probe_channel", "Probing", NoError, asked, 0)
    /\ wpc = "transfer"
    /\ wchannel = asked
    /\ buffer = <<0, 0, 0>>
    /\ data = 0
    /\ frame = <<>>
    /\ offer = NoEvent
    /\ panicked = FALSE
    /\ emitted = <<"SpiInitialized">>
    /\ sent = 1
    /\ rcvd = 0
    /\ replies = 0
    /\ txCount = 0
    /\ wrecv = 1
    /\ lost = 0
    /\ busOpen = "ok"
    /\ txFailed = FALSE

\* One bus transaction, over the byte triples of the transaction model.
TransferNext == Transfer(ByteTriples)

\* The transaction taken alone, for the claims about its arithmetic.
TransferSpec == TransferInit /\ [][TransferNext]_vars

TypeOK ==
    /\ params \in ParamsValues
    /\ handle \in {"initializing", "ready", "probing", "failed", "dropped", "crashed"}
    /\ pstate.tag \in {"Request", "WaitingReply", "None"}
    /\ wpc \in {"open", "send_init", "loop", "recv", "transfer", "send_read", "send_err",
                "exit", "unwind", "done"}
    /\ probes \in 0..MaxProbes
    /\ Len(emitted) <= MaxProbes + 1

\* --------------------------------------------------------------- claims

\* Number of events of a kind among those the worker has emitted.
Emitted(kind) == Cardinality({i \in 1..Len(emitted) : emitted[i] = kind})

\* C1: whenever Probing::poll returns Done for a handle made by
\* probe_channel(c), the channel reported in Done is c; so is the channel of
\* every ChannelRead event the worker offers for that handle.
C1_DoneReportsRequestedChannel ==
    /\ (lastResult.kind = "Done" => lastResult.channel = asked)
    /\ (offer.kind = "ChannelRead" => offer.channel = asked)

\* C1 witness: the second probe of a session returned Done for channel 5.
C1_Witness ==
    /\ lastResult.kind = "Done"
    /\ lastResult.channel = "Ch5"
    /\ probes = 2

\* C2 as stated: requests sent minus ChannelRead/Error events received,
\* wherever the caller received them, is 0 or 1.
C2_AsStated == sent - rcvd \in {0, 1}

\* C2 amended: requests sent minus the ChannelRead/Error events received by
\* Probing::poll is 0 or 1, and a request send succeeds only while the worker
\* is blocked in request_rx.recv().
C2_AtMostOneOutstanding ==
    /\ [](sent - replies \in {0, 1})
    /\ [][sent' # sent => (wpc = "recv" /\ sent' = sent + 1 /\ wrecv' = wrecv + 1)]_vars

\* C2 witness: a second request is outstanding after the first was answered.
C2_Witness ==
    /\ sent = 2
    /\ replies = 1
    /\ handle = "probing"

\* C3: SpiInitialized is emitted at most once and only as the first event,
\* nothing is emitted after an Error, and the worker is at its end after it.
C3_EventShape ==
    /\ \A i \in 1..Len(emitted) :
        /\ (emitted[i] = "SpiInitialized" => i = 1)
        /\ (emitted[i] = "Error" => i = Len(emitted))
    /\ (Emitted("Error") > 0 => wpc \in {"send_err", "done"})

\* C3 witness: SpiInitialized, a ChannelRead, then the terminal Error.
C3_Witness ==
    /\ emitted = <<"SpiInitialized", "ChannelRead", "Error">>
    /\ wpc = "done"

\* C4 as stated: while no SpiInitialized has been offered, the last
\* Initializing::probe returned Idle and left the Initializing handle in place
\* (read for the runs in which the worker does not die abnormally).
C4_AsStated ==
    (lastResult.op = "probe" /\ Emitted("SpiInitialized") = 0 /\ ~panicked)
        => (lastResult.kind = "Idle" /\ handle \in {"initializing", "dropped"})

\* C4 amended: Initializing::probe called before the worker has offered any
\* event, and while the worker thread has not ended, returns Idle with the
\* handle, both channels and the worker untouched; and probe never returns
\* Ready unless SpiInitialized was offered.
C4_IdleBeforeAnyEvent ==
    /\ [][(InitializingProbe /\ emitted = <<>> /\ wpc # "done")
            => /\ lastResult' = Result("probe", "Idle", NoError, NoChannel, 0)
               /\ handle' = "initializing"
               /\ UNCHANGED <<pstate, inPoll, callSends, callRecvs, asked, probes>>
               /\ UNCHANGED workerVars
               /\ UNCHANGED countVars]_vars
    /\ [](lastResult.kind = "Ready" => Emitted("SpiInitialized") = 1)
    /\ [](Emitted("SpiInitialized") = 0 => handle \notin {"ready", "probing"})

\* C4 witness: a probe returned Idle while the worker had not opened the bus.
C4_Witness ==
    /\ lastResult = Result("probe", "Idle", NoError, NoChannel, 0)
    /\ handle = "initializing"
    /\ wpc = "open"

\* C5: a Probing::poll round made once the worker has ended returns
\* SpiThreadLost, consumes the handle, ends the call and does not panic; the
\* caller sees SpiThreadLost at most once.
C5_PollAfterWorkerLost ==
    /\ [][((PollRequest \/ PollWaiting) /\ wpc = "done")
            => /\ lastResult' = Result("poll", "Err", "SpiThreadLost", NoChannel, 0)
               /\ handle' = "failed"
               /\ inPoll' = FALSE
               /\ lost' = 1]_vars
    /\ [](lost <= 1)
    /\ [](lost = 1 => ~CallerAlive(handle))

\* C5 witness: the reply was awaited when the worker ended, and poll
\* returned SpiThreadLost.
C5_Witness ==
    /\ lastResult = Result("poll", "Err", "SpiThreadLost", NoChannel, 0)
    /\ sent = replies + 1
    /\ wpc = "done"
    /\ lost = 1

\* C6: one worker serves the whole session, and every Probing handle ends in
\* Done with a Ready handle, unless a bus transaction fails, the worker dies
\* or the caller drops the handle.
C6_EveryProbeCompletes ==
    /\ [](spawned = 1)
    /\ \A n \in 1..MaxProbes :
        (handle = "probing" /\ probes = n)
            ~> \/ (handle = "ready" /\ probes = n /\ lastResult.kind = "Done")
               \/ txFailed
               \/ panicked
               \/ handle = "dropped"

\* C6 witness: the last probe of the run returned Done and a Ready handle.
C6_Witness ==
    /\ handle = "ready"
    /\ probes = MaxProbes
    /\ lastResult.kind = "Done"
    /\ ~txFailed
    /\ ~panicked

\* C7: once the caller's handle is gone, a worker blocked in event_tx.send
\* leaves it without emitting anything and without going to the Error path, a
\* worker blocked in request_rx.recv leaves the loop, nothing is delivered any
\* more, and the worker reaches its end.
C7_AbandonedWorkerExits ==
    /\ [][(~CallerAlive(handle) /\ InSend(wpc) /\ wpc' # wpc)
            => (wpc' \in {"loop", "done", "unwind"} /\ emitted' = emitted)]_vars
    /\ [][(~CallerAlive(handle) /\ wpc = "recv" /\ wpc' # wpc)
            => wpc' \in {"exit", "unwind"}]_vars
    /\ [][~CallerAlive(handle) => (rcvd' = rcvd /\ sent' = sent)]_vars
    /\ (~CallerAlive(handle)) ~> (wpc = "done")

\* C7 witness: the caller dropped the handle with a request outstanding, and
\* the worker has ended without a panic.
C7_Witness ==
    /\ handle = "dropped"
    /\ sent = replies + 1
    /\ Emitted("ChannelRead") = sent
    /\ wpc = "done"
    /\ ~panicked

\* C8: when Spi::new fails the worker emits the one event Error(SpiInitialize),
\* makes no bus transaction, receives no request and ends; the event, once
\* received, is what Initializing::probe returns, and the session is never
\* Ready.
C8_OpenFailure ==
    busOpen = "failed" =>
        /\ emitted = <<"Error">>
        /\ txCount = 0
        /\ wrecv = 0
        /\ frame = <<>>
        /\ wpc \in {"send_err", "done"}
        /\ (wpc = "send_err" => offer = EvError("SpiInitialize"))
        /\ handle \notin {"ready", "probing", "crashed"}
        /\ probes = 0
        /\ (rcvd = 1 =>
              /\ lastResult = Result("probe", "Err", "SpiInitialize", NoChannel, 0)
              /\ handle = "failed")
        /\ ((lastResult.kind = "Err" /\ ~panicked) => rcvd = 1)

\* C8 witness: the bus did not open and probe returned the SpiInitialize error.
C8_Witness ==
    /\ busOpen = "failed"
    /\ lastResult = Result("probe", "Err", "SpiInitialize", NoChannel, 0)
    /\ wpc = "done"

\* C9: after a failed bus transaction the worker starts no transaction,
\* receives no request and emits nothing more; the failed request has no
\* ChannelRead, the one Error(SpiTransferSegments) is what Probing::poll
\* returns once received, and the worker is at its end.
C9_NoRetry ==
    /\ [](txFailed =>
            /\ wpc \in {"send_err", "done"}
            /\ (wpc = "send_err" => offer = EvError("SpiTransferSegments"))
            /\ Emitted("Error") = 1
            /\ Emitted("ChannelRead") = txCount - 1
            /\ txCount = wrecv
            /\ (replies = sent =>
                  /\ lastResult = Result("poll", "Err", "SpiTransferSegments", NoChannel, 0)
                  /\ handle = "failed")
            /\ ((lastResult.kind = "Err" /\ ~panicked) => replies = sent))
    /\ [][txFailed => (txCount' = txCount /\ wrecv' = wrecv /\ emitted' = emitted)]_vars

\* C9 witness: the second transaction failed and poll returned the error.
C9_Witness ==
    /\ txFailed
    /\ txCount = 2
    /\ lastResult = Result("poll", "Err", "SpiTransferSegments", NoChannel, 0)
    /\ wpc = "done"

\* C10 as stated: a Probing handle holds the requested channel in each of its
\* states.
C10_AsStated == handle = "probing" => pstate.channel = asked

\* C10 amended: a Probing handle holds the requested channel until its
\* request is sent; in WaitingReply it holds no channel, and the channel is the
\* one the worker took with the request.
C10_ChannelUntilSent ==
    handle = "probing" =>
        /\ pstate.tag \in {"Request", "WaitingReply"}
        /\ (pstate.tag = "Request" => pstate.channel = asked)
        /\ (pstate.tag = "WaitingReply" =>
              (pstate.channel = NoChannel /\ wchannel = asked))

\* C10 witness: a Probing handle whose request for channel 3 has been sent.
C10_Witness ==
    /\ handle = "probing"
    /\ pstate.tag = "WaitingReply"
    /\ asked = "Ch3"

\* The literal command frame of each channel.
FrameVector(channel) ==
    CASE channel = "Ch0" -> <<1, 128, 0>>
      [] channel = "Ch1" -> <<1, 144, 0>>
      [] channel = "Ch2" -> <<1, 160, 0>>
      [] channel = "Ch3" -> <<1, 176, 0>>
      [] channel = "Ch4" -> <<1, 192, 0>>
      [] channel = "Ch5" -> <<1, 208, 0>>
      [] channel = "Ch6" -> <<1, 224, 0>>
      [] channel = "Ch7" -> <<1, 240, 0>>

\* C11: the bytes written by a transaction are the literal frame of the
\* channel of the request in hand, which is the channel the caller asked for;
\* byte 1 fits in 8 bits with its low four bits zero and the mode bit set, and
\* distinct channels have distinct frames.
C11_FrameBitExact ==
    /\ ((txCount > 0 /\ txCount = wrecv) => frame = FrameVector(wchannel))
    /\ ((handle = "probing" /\ pstate.tag = "WaitingReply" /\ txCount = wrecv)
            => frame = FrameVector(asked))
    /\ (frame # <<>> =>
            /\ Len(frame) = 3
            /\ frame[1] = 1
            /\ frame[2] \in 128..255
            /\ frame[2] % 16 = 0
            /\ frame[3] = 0)
    /\ \A c1, c2 \in Channels : (c1 # c2 => CommandFrame(c1) # CommandFrame(c2))

\* C11 witness: the second probe of a session asked for channel 3 and its
\* transaction wrote 0b1011_0000 as byte 1.
C11_Witness ==
    /\ handle = "probing"
    /\ pstate.tag = "WaitingReply"
    /\ asked = "Ch3"
    /\ probes = 2
    /\ txCount = 2
    /\ frame = <<1, 176, 0>>

\* C12: after a successful transaction the sample is the low two bits of the
\* second captured byte times 256 plus the third captured byte; it lies in
\* 0..1023, does not depend on the first byte or on the upper six bits of the
\* second, and is the sample the reported value is scaled from.
C12_Decode ==
    wpc = "send_read" =>
        /\ data = (buffer[2] % 4) * 256 + buffer[3]
        /\ data \in 0..1023
        /\ \A a \in {0, 85, 255} : Decode(<<a, buffer[2] % 4, buffer[3]>>) = data
        /\ \A hi \in {0, 4, 128, 252} :
              Decode(<<buffer[1], (buffer[2] % 4) + hi, buffer[3]>>) = data
        /\ offer.value = Scale(data, v_ref)

\* C12 witness: the bytes 255, 254, 255 were captured over the zeroed buffer
\* and decoded to 767.
C12_Witness ==
    /\ wpc = "send_read"
    /\ buffer = <<255, 254, 255>>
    /\ data = 767

\* C13 as stated: sample 0 gives 0, sample 1023 gives the reference voltage,
\* and the next sample never gives less.
C13_AsStated ==
    wpc = "send_read" =>
        /\ (data = 0 => offer.value = 0)
        /\ (data = 1023 => offer.value = v_ref)
        /\ (data < 1023 => Scale(data + 1, v_ref) >= offer.value)

\* C13 amended: the value is sample * v_ref / 1024: sample 0 gives 0, sample
\* 1023 gives v_ref * 1023 / 1024, which is v_ref / 1024 below the reference
\* voltage, and for a positive reference the next sample gives more.
C13_ScaleBy1024 ==
    wpc = "send_read" =>
        /\ offer.value * 1024 = data * v_ref
        /\ (data = 0 => offer.value = 0)
        /\ (data = 1023 =>
              /\ offer.value = v_ref - (v_ref \div 1024)
              /\ offer.value < v_ref)
        /\ (data < 1023 => Scale(data + 1, v_ref) > offer.value)

\* C13 witness: the full-scale sample under the 3.3 V reference.
C13_Witness ==
    /\ wpc = "send_read"
    /\ data = 1023
    /\ v_ref = Volt(33)
    /\ offer.value = 1023 * 33

\* C14: the clock and the reference handed to the worker follow the rail and
\* the override: 3.3 V gives 1,350,000 Hz and 3.3 V, 5 V gives 3,600,000 Hz
\* and 5.0 V, and an explicit reference is used whatever the rail, leaving the
\* clock as the rail sets it.
C14_ParamsMapping ==
    /\ (params.voltage_drain = "Positive3v3" => hz = 1350000)
    /\ (params.voltage_drain = "Positive5v" => hz = 3600000)
    /\ ((params.voltage_ref.tag = "EqualToVdd" /\ params.voltage_drain = "Positive3v3")
            => v_ref = 33 * 1024)
    /\ ((params.voltage_ref.tag = "EqualToVdd" /\ params.voltage_drain = "Positive5v")
            => v_ref = 50 * 1024)
    /\ (params.voltage_ref.tag = "Other" => v_ref = params.voltage_ref.voltage)

\* C14 witness: a session on the 5 V rail with an explicit 2.5 V reference,
\* whose worker has scaled a sample with it.
C14_Witness ==
    /\ params.voltage_drain = "Positive5v"
    /\ params.voltage_ref = [tag |-> "Other", voltage |-> 25 * 1024]
    /\ hz = 3600000
    /\ v_ref = 25 * 1024
    /\ lastResult.kind = "Done"
    /\ lastResult.value = 1023 * 25

\* C15: in every interleaving, with or without an abnormal death of the
\* worker, Initializing.probe is never offered a ChannelRead event and
\* Probing.poll is never offered SpiInitialized while waiting for a reply: the
\* caller never reaches unreachable!(), the worker's first event is never
\* ChannelRead and no later one is SpiInitialized.
C15_UnreachableNeverReached ==
    /\ handle # "crashed"
    /\ lastResult.kind # "Panic"
    /\ (handle = "initializing" => offer.kind # "ChannelRead")
    /\ ((handle = "probing" /\ pstate.tag = "WaitingReply")
            => offer.kind # "SpiInitialized")
    /\ \A i \in 1..Len(emitted) :
          /\ (i = 1 => emitted[i] # "ChannelRead")
          /\ (i > 1 => emitted[i] # "SpiInitialized")

\* C15 witness: with the worker alive, Initializing.probe has received its
\* event and Probing.poll is waiting while the worker offers its second reply.
C15_Witness ==
    /\ ~panicked
    /\ handle = "probing"
    /\ pstate.tag = "WaitingReply"
    /\ probes = 2
    /\ offer.kind = "ChannelRead"

\* C16 as stated: the number of transactions started always equals the number
\* of requests the worker has received.
C16_AsStated == txCount = wrecv

\* C16 amended: the transactions started never outnumber the requests received
\* and fall short by one only while the worker holds a request whose
\* transaction has not started (or died holding it); the worker has received
\* exactly the requests sent; every ChannelRead comes from its own successful
\* transaction; and a transaction starts only when the worker offers no event
\* and every earlier request has had its event handed to the caller.
C16_OneTransactionPerRequest ==
    /\ [](/\ txCount \in {wrecv - 1, wrecv}
          /\ (txCount # wrecv => (wpc = "transfer" \/ panicked))
          /\ (wpc = "transfer" => txCount = wrecv - 1)
          /\ wrecv = sent
          /\ Emitted("ChannelRead") = txCount - (IF txFailed THEN 1 ELSE 0))
    /\ [][txCount' # txCount =>
            /\ txCount' = txCount + 1
            /\ wpc = "transfer"
            /\ offer = NoEvent
            /\ replies = txCount]_vars

\* C16 witness: two requests received, two transactions run, both replies
\* handed to the caller.
C16_Witness ==
    /\ wrecv = 2
    /\ txCount = 2
    /\ replies = 2
    /\ Emitted("ChannelRead") = 2
    /\ lastResult.kind = "Done"

\* C17: a call of Probing.poll makes at most one send attempt and at most one
\* receive attempt; a successful send is followed by the receive attempt of
\* the same call, before the caller does anything else; and while the handle
\* waits for a reply no request is sent.
C17_TwoPhasePoll ==
    /\ [](/\ callSends \in 0..1
          /\ callRecvs \in 0..1
          /\ (inPoll =>
                /\ handle = "probing"
                /\ pstate.tag = "WaitingReply"
                /\ callSends = 1
                /\ callRecvs = 0))
    /\ [][(PollRequest /\ sent' = sent + 1) => inPoll']_vars
    /\ [][(inPoll /\ callerVars' # callerVars) =>
            (PollWaiting /\ ~inPoll' /\ callSends' = 1 /\ callRecvs' = 1)]_vars
    /\ [][(handle = "probing" /\ pstate.tag = "WaitingReply") =>
            (sent' = sent /\ wrecv' = wrecv)]_vars

\* C17 witness: one poll of a not-yet-sent handle sent the request, received
\* the reply and returned Done.
C17_Witness ==
    /\ lastResult.kind = "Done"
    /\ callSends = 1
    /\ callRecvs = 1

\* C18: a poll of a not-yet-sent handle while the worker runs but is not
\* blocked in recv returns Idle and changes nothing else: the handle is still
\* Probing with its request unsent and its channel kept, no event is consumed,
\* the worker and every counter are as before; and the send that eventually
\* succeeds carries the channel asked for.
C18_FullReturnsIdle ==
    /\ [][(PollRequest /\ InLoop(wpc) /\ wpc # "recv") =>
            /\ lastResult' = Result("poll", "Idle", NoError, NoChannel, 0)
            /\ handle' = "probing"
            /\ pstate' = pstate
            /\ pstate'.tag = "Request"
            /\ pstate'.channel = asked
            /\ ~inPoll'
            /\ UNCHANGED <<asked, probes>>
            /\ UNCHANGED workerVars
            /\ UNCHANGED countVars]_vars
    /\ [][(PollRequest /\ sent' = sent + 1) =>
            (wpc = "recv" /\ wchannel' = asked)]_vars

\* C18 witness: the second probe's poll found the worker between handing over
\* the previous reply and blocking in recv, and returned Idle.
C18_Witness ==
    /\ lastResult = Result("poll", "Idle", NoError, NoChannel, 0)
    /\ handle = "probing"
    /\ pstate = StRequest("Ch6")
    /\ probes = 2
    /\ wpc = "loop"
    /\ sent = 1

\* C19: Ready.probe_channel changes nothing of the worker and no counter of
\* sends, receives or events; it always yields a Probing handle that records
\* the channel asked for with its request not yet sent; and the worker receives
\* a request, or learns its channel, only in a poll.
C19_ProbeChannelNoEffect ==
    /\ [][(\E c \in Channels : ProbeChannel(c)) =>
            /\ UNCHANGED workerVars
            /\ UNCHANGED countVars
            /\ handle' = "probing"
            /\ pstate' = StRequest(asked')
            /\ lastResult'.kind = "Probing"
            /\ lastResult'.channel = asked']_vars
    /\ [][(handle = "ready" /\ handle' \notin {"ready", "dropped"}) =>
            (handle' = "probing" /\ pstate'.tag = "Request")]_vars
    /\ [][(wrecv' # wrecv \/ wchannel' # wchannel) => PollRequest]_vars

\* C19 witness: probe_channel(Ch5) has returned the session's second Probing
\* handle while the worker is blocked in recv and has seen one request only.
C19_Witness ==
    /\ lastResult = Result("probe_channel", "Probing", NoError, "Ch5", 0)
    /\ handle = "probing"
    /\ pstate = StRequest("Ch5")
    /\ probes = 2
    /\ wpc = "recv"
    /\ wrecv = 1
    /\ wchannel # "Ch5"

\* C20: while the worker has not died abnormally, no operation returns
\* SpiThreadLost, the worker does not terminate under a caller that holds a
\* handle, a terminated worker has had its Error received unless the caller
\* dropped the session, and every error returned is SpiInitialize after a
\* failed bus open and SpiTransferSegments after a failed transaction; and an
\* Error the worker offers is eventually returned to the caller as such,
\* unless the caller drops the session or the worker dies abnormally.
C20_NoFailureLost ==
    /\ [](~panicked =>
            /\ lost = 0
            /\ lastResult.error # "SpiThreadLost"
            /\ (CallerAlive(handle) => wpc \notin {"exit", "done"})
            /\ ((wpc = "done" /\ handle # "dropped") =>
                    (handle = "failed" /\ lastResult.kind = "Err"))
            /\ (lastResult.kind = "Err" =>
                    /\ (busOpen = "failed" \/ txFailed)
                    /\ (busOpen = "failed" => lastResult.error = "SpiInitialize")
                    /\ (txFailed => lastResult.error = "SpiTransferSegments")))
    /\ (offer.kind = "Error" /\ ~panicked) ~>
            \/ panicked
            \/ handle = "dropped"
            \/ (lastResult.kind = "Err" /\ lastResult.error \in
                    {"SpiInitialize", "SpiTransferSegments"})

\* C20 witness: a transaction of the second probe failed, the caller received
\* Error(SpiTransferSegments) from poll, and the worker has terminated.
C20_Witness ==
    /\ ~panicked
    /\ txFailed
    /\ probes = 2
    /\ handle = "failed"
    /\ lastResult = Result("poll", "Err", "SpiTransferSegments", NoChannel, 0)
    /\ wpc = "done"

====
